---------------------------- MODULE Spec2Model ----------------------------
(***************************************************************************)
(* A model of src/app/page.tsx: the MarriedMore calculator page.           *)
(*                                                                         *)
(* Time values.  A JavaScript time value is a number of milliseconds since *)
(* the epoch.  Every input of the page has minute precision (date and      *)
(* datetime-local pickers), so a time value is carried here in mixed radix *)
(* as [day, min]: whole days since 1970-01-01 and minutes within that day  *)
(* (0..1439).  A Date object is [ok, day, min]; ok = FALSE is the Invalid  *)
(* Date (time value NaN).  The range of a Date is the one ECMAScript       *)
(* fixes: +-100,000,000 days around the epoch (TimeClip).                  *)
(*                                                                         *)
(* Strings.  The value of a date or datetime-local input is modelled by    *)
(* its lexical fields [y, mo, d, h, mi]; the empty string is EmptyString.  *)
(***************************************************************************)
EXTENDS Integers, Sequences, FiniteSets, TLC

VARIABLES
    \* ---- React state of Home (page.tsx 195-203)
    mode, birthDate, weddingDate, advancedBirth, advancedWedding,
    birthTimezone, weddingTimezone, copyLabel, copyTimeout,
    \* ---- the page's environment
    mounted,            \* the component is live (its effect cleanup has not run)
    timers,             \* the browser's pending timeouts: set of [id, left]
    nextTimerId,        \* the id the next setTimeout returns
    writes,             \* handleCopy invocations suspended in navigator.clipboard.writeText:
                        \* for each, the ids of the timeouts pending when it was clicked
    clipboardAvailable, \* typeof navigator.clipboard !== "undefined"
    lastCopy,           \* what the last finished copyToClipboard did
    sinceClick,         \* ms since the last accepted copy click (saturating)
    updatedAfterCleanup, \* setCopyLabel has been called after the effect cleanup ran
    \* ---- direct applications of the pure functions
    birth, wedding, now, calc,      \* explainMarriedMoreDate({birth, wedding}) at Date.now() = now
    zValue, zZone, zInstant         \* parseDateTimeInZone(zValue, zZone)

formVars == <<mode, birthDate, weddingDate, advancedBirth, advancedWedding,
              birthTimezone, weddingTimezone>>
copyVars == <<copyLabel, copyTimeout, mounted, timers, nextTimerId, writes,
              clipboardAvailable, lastCopy, sinceClick, updatedAfterCleanup>>
calcVars == <<birth, wedding, now, calc>>
zoneVars == <<zValue, zZone, zInstant>>
vars == <<formVars, copyVars, calcVars, zoneVars>>

---------------------------------------------------------------------------
(* ECMAScript Date arithmetic, as used by the source                        *)

MinutesPerDay == 24 * 60

\* ECMAScript TimeClip: a time value beyond 8.64e15 ms (1e8 days) is NaN.
MaxDateDays == 100000000

InvalidDate == [ok |-> FALSE, day |-> 0, min |-> 0]

\* a number of minutes, carried as days and minutes within the day
Norm(d, m) == [day |-> d + (m \div MinutesPerDay), min |-> m % MinutesPerDay]

TimeClip(tv) ==
    IF \/ (tv.day >= -MaxDateDays /\ tv.day < MaxDateDays)
       \/ (tv.day = MaxDateDays /\ tv.min = 0)
    THEN [ok |-> TRUE, day |-> tv.day, min |-> tv.min]
    ELSE InvalidDate

\* new Date(value): the Date constructor clips
NewDate(tv) == TimeClip(tv)

isFinite(date) == date.ok

\* a.getTime() < b.getTime(); any comparison with NaN is false
Earlier(a, b) ==
    /\ a.ok /\ b.ok
    /\ \/ a.day < b.day
       \/ (a.day = b.day /\ a.min < b.min)

NotLater(a, b) == a.ok /\ b.ok /\ ~Earlier(b, a)

\* a.getTime() - b.getTime() and a.getTime() + duration, on finite values
Minus(a, b) == Norm(a.day - b.day, a.min - b.min)
Plus(a, dur) == Norm(a.day + dur.day, a.min + dur.min)

\* Every value that is used more than once is handed on as a parameter, so
\* the definitions below come in short chains.

\* days of the years of the 400-year era before year-of-era yoe, plus the
\* days of the months before month mp of a year that starts in March
DayOfEra(yoe, mp) ==
    yoe * 365 + (yoe \div 4) - (yoe \div 100) + ((153 * mp + 2) \div 5)

DaysOfEra(era, yy, mp, d) == era * 146097 + DayOfEra(yy - era * 400, mp) - 719468 + (d - 1)

DaysFromMarchYear(yy, mp, d) == DaysOfEra(yy \div 400, yy, mp, d)

DaysFromCivil(ym, mn, d) ==
    DaysFromMarchYear(IF mn <= 2 THEN ym - 1 ELSE ym,
                      IF mn > 2 THEN mn - 3 ELSE mn + 9, d)

\* days from the epoch to the first of month mo0 (0-based, any integer) of
\* year y, plus d - 1: ECMAScript MakeDay, which lets month and day overflow
MakeDay(y, mo0, d) == DaysFromCivil(y + (mo0 \div 12), (mo0 % 12) + 1, d)

CivilFields(y, mn, d) ==
    [y |-> y + (IF mn <= 2 THEN 1 ELSE 0), mo0 |-> mn - 1, d |-> d]

CivilOfMp(era, yoe, doy, mp) ==
    CivilFields(yoe + era * 400,
                IF mp < 10 THEN mp + 3 ELSE mp - 9,
                doy - ((153 * mp + 2) \div 5) + 1)

CivilOfDoy(era, yoe, doy) == CivilOfMp(era, yoe, doy, (5 * doy + 2) \div 153)

CivilOfYoe(era, doe, yoe) ==
    CivilOfDoy(era, yoe, doe - (365 * yoe + (yoe \div 4) - (yoe \div 100)))

CivilOfDoe(era, doe) ==
    CivilOfYoe(era, doe,
               (doe - (doe \div 1460) + (doe \div 36524) - (doe \div 146096)) \div 365)

CivilOfEra(z, era) == CivilOfDoe(era, z - era * 146097)

\* the UTC calendar fields of a day number: getUTCFullYear, getUTCMonth
\* (0-based), getUTCDate
Civil(day) == CivilOfEra(day + 719468, (day + 719468) \div 146097)

\* Date.UTC(year, month, day, hour, minute): a year 0..99 means 1900 + year
DateUTC(y, mo0, d, h, mi) ==
    TimeClip(Norm(MakeDay(IF y >= 0 /\ y <= 99 THEN 1900 + y ELSE y, mo0, d), h * 60 + mi))

\* the calendar fields c of a date, moved to month mo0 of the same year
DateInMonth(c, min, mo0) == TimeClip(Norm(MakeDay(c.y, mo0, c.d), min))

\* date.setUTCMonth(mo0): same day of month and time of day in month mo0 of
\* the date's year, overflowing into the following month(s)
setUTCMonth(date, mo0) ==
    IF ~date.ok THEN InvalidDate
    ELSE DateInMonth(Civil(date.day), date.min, mo0)

Max(a, b) == IF a >= b THEN a ELSE b

---------------------------------------------------------------------------
(* The time-zone data behind Intl.DateTimeFormat                            *)
(* The zone rules are the ones in force today, applied to every year: the  *)
(* United States rule (second Sunday of March 02:00 to first Sunday of     *)
(* November 02:00, local), the European Union rule (last Sunday of March   *)
(* to last Sunday of October, 01:00 UTC) and the New South Wales rule      *)
(* (first Sunday of October 02:00 to first Sunday of April 03:00, local).  *)

TIMEZONES ==
    << "UTC", "America/New_York", "America/Chicago", "America/Denver",
       "America/Los_Angeles", "America/Phoenix", "Europe/London",
       "Europe/Paris", "Asia/Tokyo", "Asia/Kolkata", "Australia/Sydney" >>

TimeZoneNames == {TIMEZONES[i] : i \in DOMAIN TIMEZONES}

\* standard offset from UTC, in minutes
StdOffset(tz) ==
    CASE tz = "UTC"                 -> 0
      [] tz = "America/New_York"    -> -300
      [] tz = "America/Chicago"     -> -360
      [] tz = "America/Denver"      -> -420
      [] tz = "America/Los_Angeles" -> -480
      [] tz = "America/Phoenix"     -> -420
      [] tz = "Europe/London"       -> 0
      [] tz = "Europe/Paris"        -> 60
      [] tz = "Asia/Tokyo"          -> 540
      [] tz = "Asia/Kolkata"        -> 330
      [] tz = "Australia/Sydney"    -> 600

DstRule(tz) ==
    IF tz \in {"America/New_York", "America/Chicago", "America/Denver",
               "America/Los_Angeles"} THEN "US"
    ELSE IF tz \in {"Europe/London", "Europe/Paris"} THEN "EU"
    ELSE IF tz = "Australia/Sydney" THEN "AU"
    ELSE "none"

\* 0 = Sunday; 1970-01-01 was a Thursday
Weekday(day) == (day + 4) % 7
SundayOnOrAfter(day) == day + ((7 - Weekday(day)) % 7)
NthSunday(y, mo0, n) == SundayOnOrAfter(MakeDay(y, mo0, 1)) + 7 * (n - 1)
LastSunday(y, mo0) == SundayOnOrAfter(MakeDay(y, mo0 + 1, 1) - 7)

\* tv1 <= tv2 on time values
TvLeq(a, b) == a.day < b.day \/ (a.day = b.day /\ a.min <= b.min)
TvLess(a, b) == ~TvLeq(b, a)

\* is daylight-saving time in force at the instant tv of UTC year y, under
\* the rule and with the standard offset std
InDstOfYear(rule, std, tv, y) ==
    CASE rule = "US" ->
            /\ TvLeq(Norm(NthSunday(y, 2, 2), 120 - std), tv)
            /\ TvLess(tv, Norm(NthSunday(y, 10, 1), 120 - (std + 60)))
      [] rule = "EU" ->
            /\ TvLeq(Norm(LastSunday(y, 2), 60), tv)
            /\ TvLess(tv, Norm(LastSunday(y, 9), 60))
      [] rule = "AU" ->
            \/ TvLess(tv, Norm(NthSunday(y, 3, 1), 180 - (std + 60)))
            \/ TvLeq(Norm(NthSunday(y, 9, 1), 120 - std), tv)
      [] OTHER -> FALSE

\* is daylight-saving time in force in tz at the instant tv
InDst(tz, tv) == InDstOfYear(DstRule(tz), StdOffset(tz), tv, Civil(tv.day).y)

\* the zone's offset from UTC at the instant tv, in minutes
ZoneOffsetAt(tz, tv) == StdOffset(tz) + (IF InDst(tz, tv) THEN 60 ELSE 0)

---------------------------------------------------------------------------
(* The pure functions of page.tsx                                           *)

\* the value of an empty input
EmptyString == [y |-> 0, mo |-> 0, d |-> 0, h |-> 0, mi |-> 0]
IsEmpty(value) == value.mo = 0

\* "YYYY-MM-DD" and "YYYY-MM-DDTHH:MM"
DateString(y, mo, d) == [y |-> y, mo |-> mo, d |-> d, h |-> 0, mi |-> 0]
DateTimeString(y, mo, d, h, mi) == [y |-> y, mo |-> mo, d |-> d, h |-> h, mi |-> mi]

\* the wall-clock fields of a local time value
PartsOf(c, min) ==
    [y |-> c.y, mo |-> c.mo0 + 1, d |-> c.d, h |-> min \div 60, mi |-> min % 60]
PartsOfLocal(local) == PartsOf(Civil(local.day), local.min)

\* formatter.formatToParts(date) with the timeZone option: the wall-clock
\* fields of the instant in the zone
ZonedParts(timeZone, date) ==
    PartsOfLocal(Norm(date.day, date.min + ZoneOffsetAt(timeZone, date)))

\* Date.UTC(parts.year, parts.month - 1, parts.day, parts.hour, parts.minute)
DateUTCOfParts(parts) == DateUTC(parts.y, parts.mo - 1, parts.d, parts.h, parts.mi)

\* zoned - date.getTime(), in minutes
MinutesBetween(zoned, date) ==
    (zoned.day - date.day) * MinutesPerDay + (zoned.min - date.min)

\* getTimeZoneOffsetMillis, in minutes: the zone's wall clock at `date`, read
\* back as if it were UTC, minus the instant itself
getTimeZoneOffsetMillis(timeZone, date) ==
    MinutesBetween(DateUTCOfParts(ZonedParts(timeZone, date)), date)

\* parseDateOnly: the ISO string `${value}T00:00:00Z` (a four-digit year is
\* taken as written)
parseDateOnly(value) ==
    IF IsEmpty(value) THEN InvalidDate
    ELSE NewDate(Norm(MakeDay(value.y, value.mo - 1, value.d), 0))

\* lines 119-120: the offset at `base` is taken off `base`.  (An Invalid Date
\* base cannot be formatted; no picker value gives one.)
InstantOfBase(base, timeZone) ==
    IF ~isFinite(base) THEN InvalidDate
    ELSE NewDate(Norm(base.day, base.min - getTimeZoneOffsetMillis(timeZone, base)))

parseDateTimeInZone(value, timeZone) ==
    IF IsEmpty(value) THEN InvalidDate
    ELSE InstantOfBase(DateUTC(value.y, value.mo - 1, value.d, value.h, value.mi), timeZone)

\* lines 132-139: the anchor, the comparison and the floor
MonthsToAnchor(start, end, months, startMonth) ==
    Max(IF Earlier(end, setUTCMonth(start, startMonth + months))
        THEN months - 1 ELSE months, 0)

\* lines 128-130 on the calendar fields s of start and e of end
MonthsBetweenFields(start, end, s, e) ==
    MonthsToAnchor(start, end, (e.y - s.y) * 12 + (e.mo0 - s.mo0), s.mo0)

monthDifference(start, end) ==
    IF ~isFinite(start) \/ ~isFinite(end) THEN 0
    ELSE MonthsBetweenFields(start, end, Civil(start.day), Civil(end.day))

IdleBasicMessage == "Enter both dates to reveal your MarriedMore moment."
IdleAdvancedMessage == "Add the date, time, and timezone for both birth and wedding."
IncompleteMessage == "Double-check that each calendar entry is complete."
OrderMessage ==
    "Your wedding must happen after your birthdate. Please adjust the earlier entry."

\* CalculationResult, one record shape for the three variants
NotReady(status, message) ==
    [status |-> status, message |-> message, marriedMore |-> InvalidDate,
     years |-> 0, months |-> 0, weddingFuture |-> FALSE]

\* the guard of line 156 with < for <=: equal instants pass
WeddingStrictlyBeforeBirth(b, w) == Earlier(w, b)

\* wedding.getTime() <= birth.getTime()
WeddingNotAfterBirth(b, w) == NotLater(w, b)

\* lines 167-176: the ready result
ReadyResult(marriedMore, totalMonths, weddingFuture) ==
    [status |-> "ready", message |-> "", marriedMore |-> marriedMore,
     years |-> totalMonths \div 12, months |-> totalMonths % 12,
     weddingFuture |-> weddingFuture]

\* lines 166-176 for a computed marriedMore
ReadyFor(b, w, dateNow, marriedMore) ==
    ReadyResult(marriedMore, monthDifference(b, marriedMore), Earlier(dateNow, w))

\* explainMarriedMoreDate adding the span to the birth, not to the wedding
explainAddingSpanToBirth(b, w, dateNow) ==
    IF ~isFinite(b) \/ ~isFinite(w) THEN NotReady("error", IncompleteMessage)
    ELSE IF NotLater(w, b) THEN NotReady("error", OrderMessage)
    ELSE ReadyFor(b, w, dateNow, NewDate(Plus(b, Minus(w, b))))

explainMarriedMoreDate(b, w, dateNow) ==
    IF ~isFinite(b) \/ ~isFinite(w) THEN NotReady("error", IncompleteMessage)
    ELSE IF WeddingNotAfterBirth(b, w) THEN NotReady("error", OrderMessage)
    ELSE ReadyFor(b, w, dateNow, NewDate(Plus(w, Minus(w, b))))

\* the birth and wedding instants the active mode normalizes its fields to
ActiveBirth(m, bd, ab, btz) ==
    IF m = "basic" THEN parseDateOnly(bd) ELSE parseDateTimeInZone(ab, btz)
ActiveWedding(m, wd, aw, wtz) ==
    IF m = "basic" THEN parseDateOnly(wd) ELSE parseDateTimeInZone(aw, wtz)

\* the useMemo with && for || in its emptiness tests: idle only when both
\* fields of the active mode are empty
ResultIdleWhenBothEmpty(m, bd, wd, ab, aw, btz, wtz, dateNow) ==
    IF m = "basic" THEN
        IF IsEmpty(bd) /\ IsEmpty(wd) THEN NotReady("idle", IdleBasicMessage)
        ELSE explainMarriedMoreDate(parseDateOnly(bd), parseDateOnly(wd), dateNow)
    ELSE
        IF IsEmpty(ab) /\ IsEmpty(aw) THEN NotReady("idle", IdleAdvancedMessage)
        ELSE explainMarriedMoreDate(parseDateTimeInZone(ab, btz),
                                    parseDateTimeInZone(aw, wtz), dateNow)

\* the useMemo of Home: the result for the committed inputs
Result(m, bd, wd, ab, aw, btz, wtz, dateNow) ==
    IF m = "basic" THEN
        IF IsEmpty(bd) \/ IsEmpty(wd) THEN NotReady("idle", IdleBasicMessage)
        ELSE explainMarriedMoreDate(parseDateOnly(bd), parseDateOnly(wd), dateNow)
    ELSE
        IF IsEmpty(ab) \/ IsEmpty(aw) THEN NotReady("idle", IdleAdvancedMessage)
        ELSE explainMarriedMoreDate(parseDateTimeInZone(ab, btz),
                                    parseDateTimeInZone(aw, wtz), dateNow)

result == Result(mode, birthDate, weddingDate, advancedBirth, advancedWedding,
                 birthTimezone, weddingTimezone, now)

copyDisabled == result.status # "ready"

---------------------------------------------------------------------------
(* The inputs                                                               *)

\* values the date pickers of Basic mode deliver
BasicChoices ==
    {EmptyString, DateString(1990, 1, 1), DateString(2019, 1, 1), DateString(2020, 1, 1)}

\* values the datetime-local pickers of Advanced mode deliver
AdvancedChoices ==
    {EmptyString, DateTimeString(2000, 6, 15, 8, 0), DateTimeString(2022, 6, 15, 8, 0),
     DateTimeString(2022, 6, 15, 17, 0)}

\* values of Date.now() at which the result is computed
NowChoices == {DateUTC(2010, 0, 1, 0, 0), DateUTC(2026, 10, 1, 0, 0)}

\* Date objects handed to explainMarriedMoreDate directly
CalcYears == {2023, 2024, 200000}
CalcMonths == {0, 1, 2}
CalcDates == {1, 28, 29, 30, 31}
CalcTimes == {0, 750}
CalcInstants ==
    {InvalidDate} \cup
    {DateUTC(y, mo0, d, 0, t) : y \in CalcYears, mo0 \in CalcMonths,
                                 d \in CalcDates, t \in CalcTimes}

\* local date-times handed to parseDateTimeInZone directly: the days around
\* the 2024 transitions of the three rules, and days far from them
ZoneDays ==
    {<<1, 15>>, <<3, 9>>, <<3, 10>>, <<3, 11>>, <<3, 31>>, <<4, 7>>, <<6, 15>>,
     <<10, 6>>, <<10, 27>>, <<11, 3>>}
ZoneTimes == {<<0, 30>>, <<1, 30>>, <<2, 30>>, <<3, 30>>, <<12, 0>>, <<23, 30>>}
ZoneValues ==
    {DateTimeString(2024, md[1], md[2], t[1], t[2]) : md \in ZoneDays, t \in ZoneTimes}

---------------------------------------------------------------------------
(* The state after construction                                             *)

CopyResetDelay == 2000      \* ms, the setTimeout delay of handleCopy
TickMs == 500               \* ms by which the model's clock advances
MaxCopies == 3              \* copy clicks accepted in one behaviour

NoCopy == [primary |-> "none", fallbackWorks |-> FALSE, fallback |-> "unused", ok |-> FALSE]

InitForm ==
    /\ mode = "basic"
    /\ birthDate = EmptyString
    /\ weddingDate = EmptyString
    /\ advancedBirth = EmptyString
    /\ advancedWedding = EmptyString
    /\ birthTimezone = TIMEZONES[1]
    /\ weddingTimezone = TIMEZONES[1]

InitCopy ==
    /\ copyLabel = "Copy result"
    /\ copyTimeout = 0
    /\ mounted = TRUE
    /\ timers = {}
    /\ nextTimerId = 1
    /\ writes = <<>>
    /\ clipboardAvailable \in BOOLEAN
    /\ lastCopy = NoCopy
    /\ sinceClick = CopyResetDelay
    /\ updatedAfterCleanup = FALSE

InitCalc ==
    /\ birth = InvalidDate
    /\ wedding = InvalidDate
    /\ calc = explainMarriedMoreDate(InvalidDate, InvalidDate, now)

InitZone ==
    /\ zValue = EmptyString
    /\ zZone = TIMEZONES[1]
    /\ zInstant = InvalidDate

Init ==
    /\ now \in NowChoices
    /\ InitForm /\ InitCopy /\ InitCalc /\ InitZone

---------------------------------------------------------------------------
(* The form: the onChange and onValueChange handlers                        *)

SetMode(value) ==
    /\ mounted
    /\ mode' = value
    /\ UNCHANGED <<birthDate, weddingDate, advancedBirth, advancedWedding,
                   birthTimezone, weddingTimezone, copyVars, calcVars, zoneVars>>

SetBirthDate(value) ==
    /\ mounted
    /\ birthDate' = value
    /\ UNCHANGED <<mode, weddingDate, advancedBirth, advancedWedding,
                   birthTimezone, weddingTimezone, copyVars, calcVars, zoneVars>>

SetWeddingDate(value) ==
    /\ mounted
    /\ weddingDate' = value
    /\ UNCHANGED <<mode, birthDate, advancedBirth, advancedWedding,
                   birthTimezone, weddingTimezone, copyVars, calcVars, zoneVars>>

SetAdvancedBirth(value) ==
    /\ mounted
    /\ advancedBirth' = value
    /\ UNCHANGED <<mode, birthDate, weddingDate, advancedWedding,
                   birthTimezone, weddingTimezone, copyVars, calcVars, zoneVars>>

SetAdvancedWedding(value) ==
    /\ mounted
    /\ advancedWedding' = value
    /\ UNCHANGED <<mode, birthDate, weddingDate, advancedBirth,
                   birthTimezone, weddingTimezone, copyVars, calcVars, zoneVars>>

SetBirthTimezone(value) ==
    /\ mounted
    /\ birthTimezone' = value
    /\ UNCHANGED <<mode, birthDate, weddingDate, advancedBirth, advancedWedding,
                   weddingTimezone, copyVars, calcVars, zoneVars>>

SetWeddingTimezone(value) ==
    /\ mounted
    /\ weddingTimezone' = value
    /\ UNCHANGED <<mode, birthDate, weddingDate, advancedBirth, advancedWedding,
                   birthTimezone, copyVars, calcVars, zoneVars>>

Next ==
    \/ \E value \in {"basic", "advanced"} : SetMode(value)
    \/ \E value \in BasicChoices : SetBirthDate(value)
    \/ \E value \in BasicChoices : SetWeddingDate(value)
    \/ \E value \in AdvancedChoices : SetAdvancedBirth(value)
    \/ \E value \in AdvancedChoices : SetAdvancedWedding(value)
    \/ \E value \in TimeZoneNames : SetBirthTimezone(value)
    \/ \E value \in TimeZoneNames : SetWeddingTimezone(value)

Spec == Init /\ [][Next]_vars

---------------------------------------------------------------------------
(* Claims about the form (Spec)                                             *)

\* the fields the active mode requires are both filled in
ActiveFieldsFilled ==
    IF mode = "basic" THEN ~IsEmpty(birthDate) /\ ~IsEmpty(weddingDate)
    ELSE ~IsEmpty(advancedBirth) /\ ~IsEmpty(advancedWedding)

NormalizedBirth == ActiveBirth(mode, birthDate, advancedBirth, birthTimezone)
NormalizedWedding == ActiveWedding(mode, weddingDate, advancedWedding, weddingTimezone)

\* C2: whenever both fields of the active mode are filled in and the
\* normalized wedding instant is not after the normalized birth instant
\* (equal instants included), the displayed result is error, in either mode
\* and for every pair of timezones.
C2_WeddingNotAfterBirthIsError ==
    (/\ ActiveFieldsFilled
     /\ isFinite(NormalizedBirth) /\ isFinite(NormalizedWedding)
     /\ ~Earlier(NormalizedBirth, NormalizedWedding))
    => result.status = "error"

\* C2 witness: Advanced mode, the two fields hold different wall-clock times
\* in different zones that are one and the same instant
C2_Witness ==
    /\ mode = "advanced"
    /\ ActiveFieldsFilled
    /\ birthTimezone # weddingTimezone
    /\ advancedBirth # advancedWedding
    /\ isFinite(NormalizedBirth)
    /\ NormalizedBirth = NormalizedWedding
    /\ result.status = "error"

\* C3: whenever a field the active mode requires is empty, the result is
\* idle, whatever the other mode's fields and the timezones hold.
C3_EmptyFieldIsIdle ==
    ~ActiveFieldsFilled => result.status = "idle"

\* C3 witness: Advanced mode with exactly one of its fields empty while both
\* Basic fields are filled in with a valid pair
C3_Witness ==
    /\ mode = "advanced"
    /\ IsEmpty(advancedBirth) /\ ~IsEmpty(advancedWedding)
    /\ birthDate = DateString(1990, 1, 1) /\ weddingDate = DateString(2020, 1, 1)
    /\ weddingTimezone # TIMEZONES[1]
    /\ result.status = "idle"

Scenario1 ==
    /\ mode = "basic"
    /\ birthDate = DateString(1990, 1, 1)
    /\ weddingDate = DateString(2020, 1, 1)

\* C4 as stated: Basic mode, birth 1990-01-01, wedding 2020-01-01: the result
\* is ready with marriedMore = 2050-01-01 and an age of 60 years, 0 months.
C4_AsStated ==
    Scenario1 =>
        /\ result.status = "ready"
        /\ isFinite(result.marriedMore)
        /\ ZonedParts("UTC", result.marriedMore) = DateTimeString(2050, 1, 1, 0, 0)
        /\ result.years = 60 /\ result.months = 0

\* C4 amended: Basic mode, birth 1990-01-01, wedding 2020-01-01: the result is
\* ready with marriedMore = 2049-12-31 (the span is 10957 days, and the 30
\* years after 2020-01-01 hold one leap day more than the 30 before) and an
\* age of 59 years, 11 months.
C4_Scenario1 ==
    Scenario1 =>
        /\ result.status = "ready"
        /\ isFinite(result.marriedMore)
        /\ ZonedParts("UTC", result.marriedMore) = DateTimeString(2049, 12, 31, 0, 0)
        /\ result.years = 59 /\ result.months = 11

C4_Witness == Scenario1 /\ result.status = "ready"

---------------------------------------------------------------------------
(* explainMarriedMoreDate applied to Date objects (SpecCalc)                *)

ExplainWithWedding(w) ==
    /\ wedding' = w
    /\ calc' = explainMarriedMoreDate(birth, w, now)
    /\ UNCHANGED <<birth, now, formVars, copyVars, zoneVars>>

ExplainWithBirth(b) ==
    /\ birth' = b
    /\ calc' = explainMarriedMoreDate(b, wedding, now)
    /\ UNCHANGED <<wedding, now, formVars, copyVars, zoneVars>>

NextCalc ==
    \/ \E w \in CalcInstants : ExplainWithWedding(w)
    \/ \E b \in CalcInstants : ExplainWithBirth(b)

SpecCalc == Init /\ [][NextCalc]_vars

\* the moment twice the birth-to-wedding span after the birth, as a time
\* value of unbounded range
TwiceTheSpan(b, w) == Plus(w, Minus(w, b))

\* C1: for valid instants with birth < wedding the result is ready and its
\* marriedMore instant is as far after the wedding as the wedding is after
\* the birth.
C1_SymmetricDuration ==
    (isFinite(birth) /\ isFinite(wedding) /\ Earlier(birth, wedding)) =>
        /\ calc.status = "ready"
        /\ isFinite(calc.marriedMore)
        /\ Minus(calc.marriedMore, wedding) = Minus(wedding, birth)

\* C1 holds of every pair whose marriedMore moment is a representable Date
SymmetricDurationInRange ==
    (/\ isFinite(birth) /\ isFinite(wedding) /\ Earlier(birth, wedding)
     /\ isFinite(TimeClip(TwiceTheSpan(birth, wedding)))) =>
        /\ calc.status = "ready"
        /\ isFinite(calc.marriedMore)
        /\ Minus(calc.marriedMore, wedding) = Minus(wedding, birth)

\* full calendar months from start to end, by comparing the fields: the
\* months between the two calendar months, less one when end has not yet
\* reached start's day of month and time of day in its own month
FullMonthsElapsed(start, end) ==
    LET s == Civil(start.day)
        e == Civil(end.day)
    IN  (e.y - s.y) * 12 + (e.mo0 - s.mo0)
        - (IF e.d < s.d \/ (e.d = s.d /\ end.min < start.min) THEN 1 ELSE 0)

TotalMonths(r) == r.years * 12 + r.months

AgeBreakdownExact ==
    calc.status = "ready" =>
        /\ calc.years >= 0
        /\ calc.months \in 0..11
        /\ isFinite(calc.marriedMore)
        /\ TotalMonths(calc) = FullMonthsElapsed(birth, calc.marriedMore)

AgeNonDecreasing ==
    (/\ calc.status = "ready" /\ calc'.status = "ready"
     /\ birth' = birth
     /\ Earlier(wedding, wedding'))
    => TotalMonths(calc') >= TotalMonths(calc)

\* C10: in every ready result years >= 0, months is in 0..11, years*12+months
\* is the number of full calendar months from birth to marriedMore, and for
\* a fixed birth the count does not decrease when marriedMore moves later.
C10_AgeBreakdown == []AgeBreakdownExact /\ [][AgeNonDecreasing]_vars

\* C10 holds of every pair whose marriedMore moment is a representable Date
MarriedMoreInRange(b, w) ==
    isFinite(b) /\ isFinite(w) /\ isFinite(TimeClip(TwiceTheSpan(b, w)))

AgeBreakdownInRange ==
    /\ [](MarriedMoreInRange(birth, wedding) => AgeBreakdownExact)
    /\ [][(MarriedMoreInRange(birth, wedding) /\ MarriedMoreInRange(birth', wedding'))
          => AgeNonDecreasing]_vars

---------------------------------------------------------------------------
(* parseDateTimeInZone applied to picker values (SpecZone)                  *)

Normalize(value, timeZone) ==
    /\ zValue' = value
    /\ zZone' = timeZone
    /\ zInstant' = parseDateTimeInZone(value, timeZone)
    /\ UNCHANGED <<formVars, copyVars, calcVars>>

NextZone == \E value \in ZoneValues, timeZone \in TimeZoneNames : Normalize(value, timeZone)

SpecZone == Init /\ [][NextZone]_vars

\* the wall-clock reading `value` occurs in the zone: some instant renders as it
ExistsInZone(value, timeZone) ==
    \E off \in {StdOffset(timeZone), StdOffset(timeZone) + 60} :
        LET t == Norm(MakeDay(value.y, value.mo - 1, value.d),
                      value.h * 60 + value.mi - off)
        IN  ZonedParts(timeZone, [ok |-> TRUE, day |-> t.day, min |-> t.min]) = value

\* C9: for every supported zone and every local date-time that exists in it,
\* rendering parseDateTimeInZone's instant in the same zone gives back the
\* local date-time, also next to a daylight-saving transition.
C9_ZoneRoundTrip ==
    ExistsInZone(zValue, zZone) =>
        /\ isFinite(zInstant)
        /\ ZonedParts(zZone, zInstant) = zValue

\* the round trip holds when the zone's offset is the same at the instant
\* read as UTC and at the instant itself (a day or more from a transition)
OffsetStable(value, timeZone) ==
    LET base == DateUTC(value.y, value.mo - 1, value.d, value.h, value.mi)
    IN  \A shift \in {StdOffset(timeZone), StdOffset(timeZone) + 60} :
            ZoneOffsetAt(timeZone, Norm(base.day, base.min - shift))
                = ZoneOffsetAt(timeZone, base)

ZoneRoundTripAwayFromTransitions ==
    (~IsEmpty(zValue) /\ OffsetStable(zValue, zZone)) =>
        /\ isFinite(zInstant)
        /\ ZonedParts(zZone, zInstant) = zValue

---------------------------------------------------------------------------
(* Copying: handleCopy, copyToClipboard, the reset timer, the cleanup       *)
(* (SpecCopy)                                                               *)
(* handleCopy suspends once, in `await copyToClipboard(...)`.  With         *)
(* navigator.clipboard present the promise of writeText settles in a later  *)
(* task, so timers and other events run in between; without it the fallback *)
(* runs synchronously and the rest of handleCopy follows in a microtask,    *)
(* before any timer or event.                                               *)

\* copyToClipboard without the catch of lines 294-296: a rejected writeText
\* rejects the copy, the textarea is not tried
copyToClipboardNoFallbackOnReject(primary, fallbackWorks) ==
    IF primary = "resolved" THEN
        [primary |-> primary, fallbackWorks |-> fallbackWorks, fallback |-> "unused", ok |-> TRUE]
    ELSE IF primary = "rejected" THEN
        [primary |-> primary, fallbackWorks |-> fallbackWorks, fallback |-> "unused", ok |-> FALSE]
    ELSE
        [primary |-> primary, fallbackWorks |-> fallbackWorks,
         fallback |-> IF fallbackWorks THEN "ok" ELSE "failed", ok |-> fallbackWorks]

\* copyToClipboard: what it tried and whether its promise is fulfilled, given
\* what navigator.clipboard does ("unavailable", "resolved", "rejected") and
\* whether document.execCommand("copy") succeeds
copyToClipboard(primary, fallbackWorks) ==
    IF primary = "resolved" THEN
        [primary |-> primary, fallbackWorks |-> fallbackWorks, fallback |-> "unused", ok |-> TRUE]
    ELSE
        [primary |-> primary, fallbackWorks |-> fallbackWorks,
         fallback |-> IF fallbackWorks THEN "ok" ELSE "failed", ok |-> fallbackWorks]

PendingIds == {t.id : t \in timers}

RemoveAt(seq, i) == SubSeq(seq, 1, i - 1) \o SubSeq(seq, i + 1, Len(seq))

Min(a, b) == IF a <= b THEN a ELSE b

\* the button is enabled and the component is live; at most MaxCopies clicks
CanClick ==
    /\ mounted
    /\ ~copyDisabled
    /\ nextTimerId + Len(writes) <= MaxCopies

\* lines 321-332, after the await: the label, then the timer is replaced
AfterAwait(attempt) ==
    /\ IF mounted
         THEN /\ copyLabel' = (IF attempt.ok THEN "Copied!" ELSE "Copy failed")
              /\ UNCHANGED updatedAfterCleanup
         ELSE /\ updatedAfterCleanup' = TRUE
              /\ UNCHANGED copyLabel
    /\ timers' = {t \in timers : copyTimeout = 0 \/ t.id # copyTimeout}
                    \cup {[id |-> nextTimerId, left |-> CopyResetDelay]}
    /\ copyTimeout' = nextTimerId
    /\ nextTimerId' = nextTimerId + 1
    /\ lastCopy' = attempt

\* a click with navigator.clipboard present: handleCopy runs up to the await
CopyClick ==
    /\ CanClick
    /\ clipboardAvailable
    /\ writes' = Append(writes, PendingIds)
    /\ sinceClick' = 0
    /\ UNCHANGED <<formVars, copyLabel, copyTimeout, mounted, timers, nextTimerId,
                   clipboardAvailable, lastCopy, updatedAfterCleanup, calcVars, zoneVars>>

\* a click without navigator.clipboard: the whole of handleCopy
CopyClickWithoutClipboard(fallbackWorks) ==
    /\ CanClick
    /\ ~clipboardAvailable
    /\ AfterAwait(copyToClipboard("unavailable", fallbackWorks))
    /\ sinceClick' = 0
    /\ UNCHANGED <<formVars, mounted, writes, clipboardAvailable, calcVars, zoneVars>>

\* writeText of the i-th suspended handleCopy resolves
WriteResolves(i, fallbackWorks) ==
    /\ i \in DOMAIN writes
    /\ writes' = RemoveAt(writes, i)
    /\ AfterAwait(copyToClipboard("resolved", fallbackWorks))
    /\ UNCHANGED <<formVars, mounted, clipboardAvailable, sinceClick, calcVars, zoneVars>>

\* writeText of the i-th suspended handleCopy rejects
WriteRejects(i, fallbackWorks) ==
    /\ i \in DOMAIN writes
    /\ writes' = RemoveAt(writes, i)
    /\ AfterAwait(copyToClipboard("rejected", fallbackWorks))
    /\ UNCHANGED <<formVars, mounted, clipboardAvailable, sinceClick, calcVars, zoneVars>>

\* time passes; a timeout that is due runs first
Tick ==
    /\ \A t \in timers : t.left > 0
    /\ timers' = {[id |-> t.id, left |-> Max(t.left - TickMs, 0)] : t \in timers}
    /\ sinceClick' = Min(sinceClick + TickMs, CopyResetDelay)
    /\ UNCHANGED <<formVars, copyLabel, copyTimeout, mounted, nextTimerId, writes,
                   clipboardAvailable, lastCopy, updatedAfterCleanup, calcVars, zoneVars>>

\* the callback of line 330-332 runs
FireTimer(t) ==
    /\ t \in timers
    /\ t.left = 0
    /\ timers' = timers \ {t}
    /\ IF mounted
         THEN /\ copyLabel' = "Copy result"
              /\ UNCHANGED updatedAfterCleanup
         ELSE /\ updatedAfterCleanup' = TRUE
              /\ UNCHANGED copyLabel
    /\ UNCHANGED <<formVars, copyTimeout, mounted, nextTimerId, writes,
                   clipboardAvailable, lastCopy, sinceClick, calcVars, zoneVars>>

\* the component is torn down: the cleanup of the effect of lines 205-211
Unmount ==
    /\ mounted
    /\ mounted' = FALSE
    /\ timers' = {t \in timers : copyTimeout = 0 \/ t.id # copyTimeout}
    /\ UNCHANGED <<formVars, copyLabel, copyTimeout, nextTimerId, writes,
                   clipboardAvailable, lastCopy, sinceClick, updatedAfterCleanup,
                   calcVars, zoneVars>>

\* the inputs that take the Basic form from idle to ready and back
CopyBirthChoices == {EmptyString, DateString(1990, 1, 1)}
CopyWeddingChoices == {EmptyString, DateString(2020, 1, 1)}

NextCopy ==
    \/ \E value \in {"basic", "advanced"} : SetMode(value)
    \/ \E value \in CopyBirthChoices : SetBirthDate(value)
    \/ \E value \in CopyWeddingChoices : SetWeddingDate(value)
    \/ CopyClick
    \/ \E fallbackWorks \in BOOLEAN : CopyClickWithoutClipboard(fallbackWorks)
    \/ \E i \in DOMAIN writes, fallbackWorks \in BOOLEAN : WriteResolves(i, fallbackWorks)
    \/ \E i \in DOMAIN writes, fallbackWorks \in BOOLEAN : WriteRejects(i, fallbackWorks)
    \/ Tick
    \/ \E t \in timers : FireTimer(t)
    \/ Unmount

SpecCopy == Init /\ [][NextCopy]_vars

---------------------------------------------------------------------------
(* Claims about copying (SpecCopy)                                          *)

\* a step in which the callback of a pending timeout runs: a timeout leaves
\* the pending set without the ref being replaced and without the cleanup
TimerFires ==
    /\ PendingIds' # PendingIds
    /\ PendingIds' \subseteq PendingIds
    /\ copyTimeout' = copyTimeout
    /\ mounted' = mounted

FiredIds == PendingIds \ PendingIds'

\* a step in which a handleCopy invocation runs its lines 321-332
CopyFinishes == nextTimerId' # nextTimerId

\* C5: a copy that succeeds shows "Copied!" and starts the 2000 ms reset; a
\* second click before the reset restarts the timer, so that the label is
\* never reset less than 2000 ms after the latest copy click.
C5_CopyLabelLifecycle ==
    [][/\ (CopyFinishes /\ mounted /\ lastCopy'.ok) =>
            /\ copyLabel' = "Copied!"
            /\ \E t \in timers' : t.left = CopyResetDelay
       /\ (TimerFires /\ mounted) => sinceClick >= CopyResetDelay]_vars

\* C6: at most one reset timer is pending, and a timer never fires once a
\* copy request has started while it was pending, not even while that
\* request's clipboard write is still in flight.
C6_NewRequestSupersedesTimer ==
    /\ [](Cardinality(timers) <= 1)
    /\ [][TimerFires => \A i \in DOMAIN writes : writes[i] \cap FiredIds = {}]_vars

\* at most one reset timer is pending in every state
AtMostOnePendingTimer == Cardinality(timers) <= 1

\* C7: after the teardown no reset timer is pending and no label update is
\* made, also when a clipboard write was in flight at the teardown.
C7_TeardownCancelsTimer ==
    ~mounted => (timers = {} /\ ~updatedAfterCleanup)

\* the teardown itself leaves no timer pending
CleanupClearsPendingTimer == [][(mounted /\ ~mounted') => timers' = {}]_vars

\* C8: the primary mechanism is tried whenever it is available; the fallback
\* is used exactly when the primary is unavailable or rejects; the label is
\* "Copy failed" exactly when both fail and "Copied!" otherwise; and the step
\* changes neither the mode, the fields, the timezones nor the result (a
\* function of these and of the time it was computed at).
C8_ClipboardFallback ==
    [][CopyFinishes =>
        /\ (lastCopy'.primary = "unavailable") <=> ~clipboardAvailable
        /\ (lastCopy'.fallback # "unused")
              <=> (lastCopy'.primary \in {"unavailable", "rejected"})
        /\ (lastCopy'.fallback = "failed")
              <=> (lastCopy'.primary # "resolved" /\ ~lastCopy'.fallbackWorks)
        /\ mounted =>
              copyLabel' = (IF lastCopy'.primary # "resolved" /\ ~lastCopy'.fallbackWorks
                            THEN "Copy failed" ELSE "Copied!")
        /\ formVars' = formVars
        /\ now' = now]_vars

\* C8 witness: writeText rejected, the textarea copy failed too, and the
\* button of the ready result reads "Copy failed"
C8_Witness ==
    /\ mounted
    /\ result.status = "ready"
    /\ lastCopy.primary = "rejected"
    /\ lastCopy.fallback = "failed"
    /\ copyLabel = "Copy failed"

=============================================================================
